---- MODULE Spec2Model ----
(***************************************************************************)
(* Model of hanair_data/table_updater.py: the streaming table scanner      *)
(* (_TableParser), fetch_table_rows and update_workbook.                   *)
(*                                                                         *)
(* Text is a sequence of one-character strings.  A cell's _cell_parts list *)
(* is kept flattened (the code only ever reads "".join(self._cell_parts)), *)
(* so a data event of several characters is several one-character appends.*)
(***************************************************************************)
EXTENDS Integers, Sequences, FiniteSets, TLC

(* ------------------------------ bounds -------------------------------- *)
MaxTarget == 2     \* target indexes drawn from -1..MaxTarget
MaxTables == 3     \* table-open boundaries per document (Spec)
MaxRows == 3       \* row-open boundaries per document (Spec)
MaxCells == 3      \* cell-open boundaries per document (Spec)
MaxChars == 1      \* text characters per document (Spec)
MaxEvents == 8     \* events fed per parse (SpecAny)
MaxHtml == 2       \* events of the downloaded markup (SpecFetch)
MaxTextRows == 2   \* row-open boundaries per document (SpecText)
MaxTextCells == 2  \* cell-open boundaries per document (SpecText)
MaxText == 5       \* text characters and line breaks per document (SpecText)
MaxCalls == 2      \* update_workbook calls on one file (SpecBook)

(* ---------------------------- characters ------------------------------ *)
SP == " "
NBSP == "NBSP"     \* "\xa0"
LF == "LF"         \* "\n", also what a <br> contributes
CR == "CR"         \* "\r", a line boundary of str.splitlines other than "\n"

\* str.isspace(): what str.strip() and str.split() treat as whitespace
Whitespace == {SP, NBSP, LF, CR}

\* the characters str.splitlines() splits on
LineBoundary == {LF, CR}

(* ------------------------ Python string helpers ------------------------ *)
\* str.replace("\xa0", " ")
ReplaceNbsp(s) == [i \in 1..Len(s) |-> IF s[i] = NBSP THEN SP ELSE s[i]]

RECURSIVE LStrip(_)
LStrip(s) ==
    IF s = <<>> THEN <<>>
    ELSE IF Head(s) \in Whitespace THEN LStrip(Tail(s))
    ELSE s

RECURSIVE RStrip(_)
RStrip(s) ==
    IF s = <<>> THEN <<>>
    ELSE IF s[Len(s)] \in Whitespace THEN RStrip(SubSeq(s, 1, Len(s) - 1))
    ELSE s

\* str.strip()
Strip(s) == RStrip(LStrip(s))

\* str.splitlines(): "\r\n" is one boundary, a final boundary opens no line
RECURSIVE SplitLinesFrom(_, _)
SplitLinesFrom(s, cur) ==
    IF s = <<>> THEN (IF cur = <<>> THEN <<>> ELSE <<cur>>)
    ELSE IF Head(s) = CR /\ Len(s) >= 2 /\ s[2] = LF
         THEN <<cur>> \o SplitLinesFrom(SubSeq(s, 3, Len(s)), <<>>)
    ELSE IF Head(s) \in LineBoundary
         THEN <<cur>> \o SplitLinesFrom(Tail(s), <<>>)
    ELSE SplitLinesFrom(Tail(s), Append(cur, Head(s)))

SplitLines(s) == SplitLinesFrom(s, <<>>)

\* str.split() with no argument: the maximal runs of non-whitespace
RECURSIVE SplitFrom(_, _)
SplitFrom(s, cur) ==
    IF s = <<>> THEN (IF cur = <<>> THEN <<>> ELSE <<cur>>)
    ELSE IF Head(s) \in Whitespace
         THEN (IF cur = <<>> THEN <<>> ELSE <<cur>>) \o SplitFrom(Tail(s), <<>>)
    ELSE SplitFrom(Tail(s), Append(cur, Head(s)))

Split(s) == SplitFrom(s, <<>>)

\* sep.join(items)
RECURSIVE Join(_, _)
Join(sep, items) ==
    IF items = <<>> THEN <<>>
    ELSE IF Len(items) = 1 THEN items[1]
    ELSE items[1] \o <<sep>> \o Join(sep, Tail(items))

Contains(s, c) == \E i \in 1..Len(s) : s[i] = c

\* str.lower() on the tag names the model feeds
Lower(tag) ==
    CASE tag = "TABLE" -> "table"
      [] tag = "BR" -> "br"
      [] OTHER -> tag

(* --------------------------- cell finalizing --------------------------- *)
\* line 90: "\n".join(part.strip() for part in text.splitlines())
TrimLines(text) ==
    LET lines == SplitLines(text)
    IN  Join(LF, [i \in 1..Len(lines) |-> Strip(lines[i])])

\* line 91: " ".join(text.split()) if "\n" not in text else text
CollapseAlways(text) == Join(SP, Split(text))
CollapseNever(text) == text
CollapseUnlessMultiline(text) ==
    IF ~Contains(text, LF) THEN Join(SP, Split(text)) ELSE text

\* lines 89-92: the string a cell-close appends to the current row
FinalizeCellUnstripped(parts) ==
    CollapseUnlessMultiline(TrimLines(ReplaceNbsp(parts)))
FinalizeCell(parts) ==
    Strip(CollapseUnlessMultiline(TrimLines(ReplaceNbsp(parts))))

(* ------------------------------ scanner -------------------------------- *)
VARIABLES
    pc,         \* position of the call being modelled
    index,      \* the table index argument of the call
    parser,     \* the fields of the _TableParser object (NoParser: none exists)
    stack,      \* reference reading of the markup: the open elements
    doc,        \* reference reading: doc[k+1] = closed non-empty rows of table k
    closedT,    \* indexes of the tables whose close boundary has been fed
    nestedT,    \* indexes of the tables inside which a table was opened
    used,       \* how much of the document bounds the markup fed so far uses
    net,        \* outcome of urlopen for the call (SpecFetch, SpecMain)
    html,       \* the markup the server returns, as parse events (SpecFetch, SpecMain)
    family,     \* which bounded family of documents is fed: "tables" or "text"
    file,       \* the workbook stored at output_path (<<>>: no file) (SpecBook)
    dir,        \* whether the directory of output_path exists (SpecBook)
    wb,         \* the workbook update_workbook holds in memory (SpecBook)
    args,       \* the arguments of the update_workbook call (SpecBook)
    calls,      \* update_workbook calls made so far (SpecBook)
    ref         \* what the events fed amount to, kept beside the scanner (SpecAny)

vars ==
    <<pc, index, parser, stack, doc, closedT, nestedT, used, net, html, family,
      file, dir, wb, args, calls, ref>>

book == <<file, dir, wb, args, calls>>

ghost == <<stack, doc, closedT, nestedT, used>>

reading == <<stack, doc, closedT, nestedT, used, ref>>

\* what a call is given: never changed by it
given == <<index, net, html, family>>

\* no _TableParser has been constructed
NoParser ==
    [target_index |-> 0, current_index |-> 0 - 1, capture |-> FALSE,
     table_depth |-> 0, in_row |-> FALSE, in_cell |-> FALSE,
     rows |-> <<>>, current_row |-> <<>>, cell_parts |-> <<>>]

\* lines 44-52: the fields __init__ sets once the index is accepted
NewParser(target) ==
    [target_index |-> target, current_index |-> 0 - 1, capture |-> FALSE,
     table_depth |-> 0, in_row |-> FALSE, in_cell |-> FALSE,
     rows |-> <<>>, current_row |-> <<>>, cell_parts |-> <<>>]

\* line 42: the index __init__ rejects
RejectsIndex(target) == target < 0

\* line 57: the table-open that starts capture
IsTargetOrLater(current, target) == current >= target
IsTarget(current, target) == current = target

\* line 81: the table-close that ends capture
CaptureEndsAlways(depth) == TRUE
CaptureEnds(depth) == depth = 0

\* line 96: the rows a row-close appends
KeepRowAlways(row) == TRUE
KeepRow(row) == row # <<>>

\* line 61: the table-opens, other than the target's, that raise the depth
CountsNestedAlways(p) == TRUE
CountsNested(p) == p.capture

\* line 70: the row accumulator a row-open leaves
RowOpensKeeping(row) == row
RowOpens(row) == <<>>

\* lines 54-75
handle_starttag(p, tag) ==
    LET t == Lower(tag)
        counted == IF t = "table" THEN [p EXCEPT !.current_index = @ + 1] ELSE p
    IN  IF t = "table" /\ IsTarget(counted.current_index, counted.target_index)
            THEN [counted EXCEPT !.capture = TRUE, !.table_depth = 1]
        ELSE IF t = "table" /\ CountsNested(counted)
            THEN [counted EXCEPT !.table_depth = @ + 1]
        ELSE IF ~counted.capture THEN counted
        ELSE IF t = "tr"
            THEN [counted EXCEPT !.in_row = TRUE,
                                 !.current_row = RowOpens(p.current_row)]
        ELSE IF t \in {"td", "th"}
            THEN [counted EXCEPT !.in_cell = TRUE, !.cell_parts = <<>>]
        ELSE IF t = "br" /\ counted.in_cell
            THEN [counted EXCEPT !.cell_parts = Append(@, LF)]
        ELSE counted

\* lines 77-99
handle_endtag(p, tag) ==
    LET t == Lower(tag)
    IN  IF t = "table" /\ p.capture
            THEN [p EXCEPT !.table_depth = @ - 1,
                           !.capture = ~CaptureEnds(p.table_depth - 1)]
        ELSE IF ~p.capture THEN p
        ELSE IF t \in {"td", "th"} /\ p.in_cell
            THEN [p EXCEPT !.current_row = Append(@, FinalizeCell(p.cell_parts)),
                           !.in_cell = FALSE, !.cell_parts = <<>>]
        ELSE IF t = "tr" /\ p.in_row
            THEN [p EXCEPT !.rows = IF KeepRow(p.current_row)
                                    THEN Append(@, p.current_row) ELSE @,
                           !.in_row = FALSE, !.current_row = <<>>]
        ELSE p

\* lines 101-103
handle_data(p, data) ==
    IF p.capture /\ p.in_cell
        THEN [p EXCEPT !.cell_parts = @ \o data]
    ELSE p

\* line 106: the scanner states in which a self-closing line break counts
BreakAppliesInCell(p) == p.in_cell
BreakApplies(p) == p.capture /\ p.in_cell

\* lines 105-107
handle_startendtag(p, tag) ==
    IF Lower(tag) = "br" /\ BreakApplies(p)
        THEN [p EXCEPT !.cell_parts = Append(@, LF)]
    ELSE p

(* ------------------ the events fed, beside the scanner ------------------ *)
\* ref keeps, for the events SpecAny feeds:
\*   flat, nest  a second scanner fed the same events without the table-open
\*               and table-close boundaries of tables nested in the table it
\*               captures, and the number of such tables now open;
\*   open, acc, out  the rows as assembled from boundaries: a row-open while
\*               capturing opens a row with no cell, a cell finalized while a
\*               row is open is added to it, a row-close while a row is open
\*               puts the row out if it has a cell and closes it;
\*   starts      how many times capture went from off to on.
NoRef ==
    [flat |-> NoParser, nest |-> 0, open |-> FALSE, acc |-> <<>>,
     out |-> <<>>, starts |-> 0]

NewRef(target) == [NoRef EXCEPT !.flat = NewParser(target)]

\* r after a step that takes the scanner from p to q
Started(r, p, q) ==
    [r EXCEPT !.starts = IF ~p.capture /\ q.capture THEN @ + 1 ELSE @]

RefStartTag(r, p, tag) ==
    LET t == Lower(tag)
    IN  IF t = "table" /\ r.flat.capture
            THEN [r EXCEPT !.nest = @ + 1]
        ELSE IF t = "tr" /\ p.capture
            THEN [r EXCEPT !.flat = handle_starttag(@, tag),
                           !.open = TRUE, !.acc = <<>>]
        ELSE [r EXCEPT !.flat = handle_starttag(@, tag)]

RefEndTag(r, p, tag) ==
    LET t == Lower(tag)
    IN  IF t = "table" /\ r.flat.capture /\ r.nest > 0
            THEN [r EXCEPT !.nest = @ - 1]
        ELSE IF t \in {"td", "th"} /\ p.capture /\ p.in_cell
            THEN [r EXCEPT !.flat = handle_endtag(@, tag),
                           !.acc = IF r.open
                                   THEN Append(@, FinalizeCell(p.cell_parts))
                                   ELSE @]
        ELSE IF t = "tr" /\ p.capture /\ r.open
            THEN [r EXCEPT !.flat = handle_endtag(@, tag),
                           !.out = IF r.acc # <<>> THEN Append(@, r.acc) ELSE @,
                           !.open = FALSE, !.acc = <<>>]
        ELSE [r EXCEPT !.flat = handle_endtag(@, tag)]

RefData(r, data) == [r EXCEPT !.flat = handle_data(@, data)]

RefStartEndTag(r, tag) == [r EXCEPT !.flat = handle_startendtag(@, tag)]

(* ------------------- reference reading of the markup ------------------- *)
\* The markup Spec feeds is well formed: rows directly in tables, cells
\* directly in rows, text, line breaks and nested tables in cells, every
\* element closed by an end tag of its kind (td and th both open and close
\* a cell).  stack/doc read it as a tree: a row belongs to the innermost
\* table open when it is closed, a cell's text is the text directly in the
\* cell.
Top == IF stack = <<>> THEN "doc" ELSE stack[Len(stack)].kind

Elem(kind, idx) == [kind |-> kind, idx |-> idx, cells |-> <<>>, text |-> <<>>]

Pop == SubSeq(stack, 1, Len(stack) - 1)

OpenTables == {stack[i].idx : i \in {j \in 1..Len(stack) : stack[j].kind = "table"}}

\* the innermost open table
Owner ==
    LET ts == {j \in 1..Len(stack) : stack[j].kind = "table"}
    IN  stack[CHOOSE j \in ts : \A k \in ts : k <= j].idx

\* the text of table k's cells: each table has its own letter
Letters == <<"a", "b", "c", "d", "e", "f">>
Letter(k) == Letters[k + 1]

GhostStart(tag) ==
    CASE tag = "table" ->
            /\ stack' = Append(stack, Elem("table", Len(doc)))
            /\ doc' = Append(doc, <<>>)
            /\ nestedT' = nestedT \cup OpenTables
            /\ UNCHANGED <<closedT, used>>
      [] tag = "tr" ->
            /\ stack' = Append(stack, Elem("tr", 0))
            /\ used' = [used EXCEPT !.rows = @ + 1]
            /\ UNCHANGED <<doc, closedT, nestedT>>
      [] tag \in {"td", "th"} ->
            /\ stack' = Append(stack, Elem("cell", 0))
            /\ used' = [used EXCEPT !.cells = @ + 1]
            /\ UNCHANGED <<doc, closedT, nestedT>>

GhostText(data) ==
    /\ stack' = [stack EXCEPT ![Len(stack)].text = @ \o data]
    /\ used' = [used EXCEPT !.chars = @ + Len(data),
                            !.letters = IF data[1] \in Whitespace THEN @ ELSE @ + 1,
                            !.newlines = IF data[1] = LF THEN @ + 1 ELSE @]
    /\ UNCHANGED <<doc, closedT, nestedT>>

\* a line break reads as the newline it stands for
GhostBreak == GhostText(<<LF>>)

GhostEnd ==
    CASE Top = "table" ->
            /\ stack' = Pop
            /\ closedT' = closedT \cup {stack[Len(stack)].idx}
            /\ UNCHANGED <<doc, nestedT, used>>
      [] Top = "tr" ->
            /\ stack' = Pop
            /\ doc' = IF stack[Len(stack)].cells # <<>>
                      THEN [doc EXCEPT ![stack[Len(stack) - 1].idx + 1] =
                                Append(@, stack[Len(stack)].cells)]
                      ELSE doc
            /\ UNCHANGED <<closedT, nestedT, used>>
      [] Top = "cell" ->
            /\ stack' = [Pop EXCEPT ![Len(stack) - 1].cells =
                            Append(@, FinalizeCell(stack[Len(stack)].text))]
            /\ UNCHANGED <<doc, closedT, nestedT, used>>

\* The documents fed come from two bounded families.  "tables": up to
\* MaxTables tables, nested or not, the text of a cell made of the letter of
\* its table.  "text": one table, the text of a cell any mix of letters,
\* spaces, non-breaking spaces, newlines, carriage returns and line breaks;
\* the k-th letter of the document is the k-th letter of the alphabet (the
\* code looks at no character but whitespace and line boundaries).
TableLimit == IF family = "text" THEN 1 ELSE MaxTables
RowLimit == IF family = "text" THEN MaxTextRows ELSE MaxRows
CellLimit == IF family = "text" THEN MaxTextCells ELSE MaxCells
CharLimit == IF family = "text" THEN MaxText ELSE MaxChars

Capitals == <<"A", "B", "C", "D", "E", "F", "G", "H">>

NextChars ==
    IF family = "text"
    THEN {Capitals[used.letters + 1], SP, NBSP, LF, CR}
    ELSE {Letter(Owner)}

NothingUsed ==
    [rows |-> 0, cells |-> 0, chars |-> 0, letters |-> 0, newlines |-> 0,
     events |-> 0]

\* the start tags the grammar allows next, within the document bounds
MayStart(tag) ==
    CASE tag = "table" -> Top \in {"doc", "cell"} /\ Len(doc) < TableLimit
      [] tag = "tr" -> Top = "table" /\ used.rows < RowLimit
      [] tag \in {"td", "th"} -> Top = "tr" /\ used.cells < CellLimit
      [] OTHER -> FALSE

MayText == Top = "cell" /\ used.chars < CharLimit

\* the end tags that close the innermost open element
EndTags == IF Top = "cell" THEN {"td", "th"} ELSE {Top}

(* ------------------------------- actions -------------------------------- *)
\* update_workbook has not been called
NoArgs ==
    [rows |-> <<>>, latest_sheet_name |-> "", include_history |-> FALSE,
     history_sheet_name |-> "", fetched_on |-> ""]

NoBook ==
    file = <<>> /\ dir = FALSE /\ wb = <<>> /\ args = NoArgs /\ calls = 0

Init ==
    /\ pc = "new"
    /\ index \in (0 - 1)..MaxTarget
    /\ parser = NoParser
    /\ stack = <<>>
    /\ doc = <<>>
    /\ closedT = {}
    /\ nestedT = {}
    /\ used = NothingUsed
    /\ ref = NoRef
    /\ net = "ok"
    /\ html = <<>>
    /\ family = "tables"
    /\ NoBook

\* the "text" family, scanned for its only table
InitText ==
    /\ pc = "new"
    /\ index = 0
    /\ parser = NoParser
    /\ stack = <<>>
    /\ doc = <<>>
    /\ closedT = {}
    /\ nestedT = {}
    /\ used = NothingUsed
    /\ ref = NoRef
    /\ net = "ok"
    /\ html = <<>>
    /\ family = "text"
    /\ NoBook

\* _TableParser(target_index), lines 40-52
Construct ==
    /\ pc = "new"
    /\ IF RejectsIndex(index)
       THEN pc' = "err_arg" /\ UNCHANGED <<parser, ref>>
       ELSE pc' = "feed" /\ parser' = NewParser(index) /\ ref' = NewRef(index)
    /\ UNCHANGED <<ghost, given, book>>

\* feed reaches a start tag of the well-formed markup
StartTag ==
    /\ pc = "feed"
    /\ \/ \E tag \in {"table", "tr", "td", "th"} :
            /\ MayStart(tag)
            /\ parser' = handle_starttag(parser, tag)
            /\ GhostStart(tag)
       \/ /\ MayText
          /\ parser' = handle_starttag(parser, "br")
          /\ GhostBreak
    /\ UNCHANGED <<pc, ref, given, book>>

\* feed reaches the end tag of the innermost open element
EndTag ==
    /\ pc = "feed"
    /\ stack # <<>>
    /\ \E tag \in EndTags : parser' = handle_endtag(parser, tag)
    /\ GhostEnd
    /\ UNCHANGED <<pc, ref, given, book>>

\* feed reaches text in a cell
Data ==
    /\ pc = "feed"
    /\ MayText
    /\ \E c \in NextChars :
        /\ parser' = handle_data(parser, <<c>>)
        /\ GhostText(<<c>>)
    /\ UNCHANGED <<pc, ref, given, book>>

\* feed reaches <br/> in a cell
StartEndTag ==
    /\ pc = "feed"
    /\ MayText
    /\ parser' = handle_startendtag(parser, "br")
    /\ GhostBreak
    /\ UNCHANGED <<pc, ref, given, book>>

\* fetch_table_rows lines 141-147, once feed has returned: the markup may end
\* anywhere
FetchReturn ==
    /\ pc = "feed"
    /\ pc' = IF parser.rows = <<>> THEN "err_notfound" ELSE "ok"
    /\ UNCHANGED <<parser, reading, given, book>>

Next == Construct \/ StartTag \/ EndTag \/ Data \/ StartEndTag \/ FetchReturn

Spec == Init /\ [][Next]_vars

SpecText == InitText /\ [][Next]_vars

(* ---------------- the scanner under arbitrary events -------------------- *)
\* SpecAny calls the handlers in any order, with any tag, as happens for
\* markup that is not well formed; used counts what has been fed.
AnyTags == {"table", "tr", "td", "th", "br", "p", "TABLE"}

AnyChars == {"x", SP}

\* one more event fed: a start tag, or (tag "") another event with n characters
Fed(tag, n) ==
    used' = [used EXCEPT !.events = @ + 1,
                         !.rows = IF tag = "tr" THEN @ + 1 ELSE @,
                         !.cells = IF tag \in {"td", "th"} THEN @ + 1 ELSE @,
                         !.chars = @ + n]

AnyStartTag ==
    /\ pc = "feed"
    /\ used.events < MaxEvents
    /\ \E tag \in AnyTags :
        /\ parser' = handle_starttag(parser, tag)
        /\ ref' = Started(RefStartTag(ref, parser, tag),
                          parser, handle_starttag(parser, tag))
        /\ Fed(tag, 0)
    /\ UNCHANGED <<pc, stack, doc, closedT, nestedT, given, book>>

AnyEndTag ==
    /\ pc = "feed"
    /\ used.events < MaxEvents
    /\ \E tag \in AnyTags :
        /\ parser' = handle_endtag(parser, tag)
        /\ ref' = Started(RefEndTag(ref, parser, tag),
                          parser, handle_endtag(parser, tag))
    /\ Fed("", 0)
    /\ UNCHANGED <<pc, stack, doc, closedT, nestedT, given, book>>

AnyData ==
    /\ pc = "feed"
    /\ used.events < MaxEvents
    /\ \E c \in AnyChars :
        /\ parser' = handle_data(parser, <<c>>)
        /\ ref' = Started(RefData(ref, <<c>>),
                          parser, handle_data(parser, <<c>>))
    /\ Fed("", 1)
    /\ UNCHANGED <<pc, stack, doc, closedT, nestedT, given, book>>

AnyStartEndTag ==
    /\ pc = "feed"
    /\ used.events < MaxEvents
    /\ \E tag \in AnyTags :
        /\ parser' = handle_startendtag(parser, tag)
        /\ ref' = Started(RefStartEndTag(ref, tag),
                          parser, handle_startendtag(parser, tag))
    /\ Fed("", 0)
    /\ UNCHANGED <<pc, stack, doc, closedT, nestedT, given, book>>

NextAny ==
    Construct \/ AnyStartTag \/ AnyEndTag \/ AnyData \/ AnyStartEndTag
        \/ FetchReturn

SpecAny == Init /\ [][NextAny]_vars

(* --------------------------- fetch_table_rows --------------------------- *)
\* SpecFetch is a call fetch_table_rows(url, table_index=index) as written:
\* the download (lines 134-137), then the construction of the parser by the
\* call of line 139.
Event(kind, arg) == [kind |-> kind, arg |-> arg]

HtmlEvents ==
    {Event("start", t) : t \in {"table", "tr", "td"}}
        \cup {Event("end", t) : t \in {"table", "tr", "td"}}
        \cup {Event("data", "x")}

RECURSIVE SeqsUpTo(_, _)
SeqsUpTo(S, n) ==
    IF n = 0 THEN {<<>>}
    ELSE LET shorter == SeqsUpTo(S, n - 1)
         IN  shorter \cup {Append(s, e) : s \in shorter, e \in S}

TableOpens(events) ==
    Cardinality({i \in 1..Len(events) : events[i] = Event("start", "table")})

\* line 40: the keyword parameters __init__ declares
InitParams == {"target_index"}

\* line 139: the keyword the call passes the index by
CallKeyword == "table_index"

\* a keyword argument binds only to a declared parameter (else TypeError)
Binds(keyword) == keyword \in InitParams

\* lines 134-137: what urlopen and response.read do: the page arrives, or
\* the named exception is raised (TimeoutError: the timeout expires while the
\* page is read)
Responses == {"ok", "URLError", "HTTPError", "TimeoutError"}

RaisesNever(response) == FALSE

Raises(response) == response # "ok"

InitFetch ==
    /\ pc = "call"
    /\ index \in (0 - 1)..MaxTarget
    /\ net \in Responses
    /\ html \in IF net = "ok" THEN SeqsUpTo(HtmlEvents, MaxHtml) ELSE {<<>>}
    /\ parser = NoParser
    /\ stack = <<>>
    /\ doc = <<>>
    /\ closedT = {}
    /\ nestedT = {}
    /\ used = NothingUsed
    /\ ref = NoRef
    /\ family = "tables"
    /\ NoBook

\* lines 134-137: urlopen returns the page or raises; nothing in
\* fetch_table_rows catches what it raises
Urlopen ==
    /\ pc = "call"
    /\ pc' = IF Raises(net) THEN "err_fetch" ELSE "downloaded"
    /\ UNCHANGED <<parser, reading, given, book>>

\* line 139: _TableParser(table_index=table_index)
CallParser ==
    /\ pc = "downloaded"
    /\ IF ~Binds(CallKeyword)
       THEN pc' = "err_type" /\ UNCHANGED <<parser, ref>>
       ELSE IF RejectsIndex(index)
       THEN pc' = "err_arg" /\ UNCHANGED <<parser, ref>>
       ELSE pc' = "feed" /\ parser' = NewParser(index) /\ ref' = NewRef(index)
    /\ UNCHANGED <<ghost, given, book>>

NextFetch == Urlopen \/ CallParser

SpecFetch == InitFetch /\ [][NextFetch]_vars

(* --------------------------------- main --------------------------------- *)
\* SpecMain is main() as written, from its call of fetch_table_rows (line
\* 315) on.  parser.error (argparse) prints the message and raises
\* SystemExit(2): the return statements of lines 318, 321 and 337 are never
\* reached.  An exception no except clause of main names leaves main.  The
\* call of update_workbook (lines 323-341) follows a fetch_table_rows call
\* that returns, and the call of line 139 lets none return.
HandledByDownloadClause == {"HTTPError", "URLError"}

\* lines 316-321: how main ends when fetch_table_rows ended with outcome
\* (a pc value) after the response
main_except(outcome, response) ==
    IF outcome = "err_fetch" /\ response \in HandledByDownloadClause
        THEN "SystemExit_2"
    ELSE IF outcome \in {"err_arg", "err_notfound"}
        THEN "SystemExit_2"
    ELSE "uncaught"

MainExcept ==
    /\ pc \in {"err_fetch", "err_arg", "err_notfound", "err_type"}
    /\ pc' = main_except(pc, net)
    /\ UNCHANGED <<parser, reading, given, book>>

NextMain == Urlopen \/ CallParser \/ MainExcept

SpecMain == InitFetch /\ [][NextMain]_vars

(* ---------------------------- update_workbook --------------------------- *)
\* A workbook is the sequence of its sheets; a sheet has a title and its
\* cells, cells[r][c] the value of the cell in row r, column c.  An empty cell
\* value (None or "") is "": the code only tests values for truth and for
\* membership in (None, "").  A file may also hold numbers: ZERO is the
\* number 0 in a cell, a value that is not empty and not true.  Column
\* widths, freeze panes and the document properties (lines 186-193, 248-253)
\* are left out.
Sheet(title, cells) == [title |-> title, cells |-> cells]

ZERO == "number 0"

\* the cell values bool() takes as false
Falsy == {"", ZERO}

Max(a, b) == IF a >= b THEN a ELSE b

\* openpyxl Workbook(): one empty sheet titled "Sheet"
NewWorkbook == <<Sheet("Sheet", <<>>)>>

\* lines 150-153
load_workbook(f) == IF f # <<>> THEN f ELSE NewWorkbook

sheetnames(w) == [i \in 1..Len(w) |-> w[i].title]

HasSheet(w, name) == \E i \in 1..Len(w) : w[i].title = name

SheetAt(w, name) == CHOOSE i \in 1..Len(w) : w[i].title = name

\* worksheet.max_row, worksheet.max_column: 1 for a sheet without cells
max_row(cells) ==
    LET filled == {r \in 1..Len(cells) : cells[r] # <<>>}
    IN  IF filled = {} THEN 1 ELSE CHOOSE r \in filled : \A q \in filled : q <= r

RECURSIVE Widest(_)
Widest(cells) ==
    IF cells = <<>> THEN 0 ELSE Max(Len(Head(cells)), Widest(Tail(cells)))

max_column(cells) == Max(1, Widest(cells))

\* worksheet.cell(1, 1).value, "" when the cell is empty
FirstValue(cells) ==
    IF cells # <<>> /\ cells[1] # <<>> THEN cells[1][1] ELSE ""

\* line 245: any(cell.value for row in sheet.iter_rows() for cell in row)
HasValue(cells) ==
    \E r \in 1..Len(cells) : \E c \in 1..Len(cells[r]) : cells[r][c] \notin Falsy

\* workbook.remove(workbook[name])
Remove(w, name) == SelectSeq(w, LAMBDA sh : sh.title # name)

\* lines 160-165: the workbook is nothing but the untouched default sheet
IsUntouchedDefault(w) ==
    /\ sheetnames(w) = <<"Sheet">>
    /\ max_row(w[1].cells) = 1
    /\ max_column(w[1].cells) = 1
    /\ FirstValue(w[1].cells) = ""

\* lines 157, 238: the names Excel refuses
TooLong(name) == Len(name) > 31

\* lines 160-174, for a name that is not too long: the workbook with the
\* sheet for name in place
_reset_sheet(w, name) ==
    IF IsUntouchedDefault(w) THEN [w EXCEPT ![1].title = name]
    ELSE Append(IF HasSheet(w, name) THEN Remove(w, name) ELSE w,
                Sheet(name, <<>>))

\* lines 179-185: worksheet.cell(row, column, value) for every value of rows
WrittenCells(cells, rows) ==
    [r \in 1..Max(Len(cells), Len(rows)) |->
        LET old == IF r <= Len(cells) THEN cells[r] ELSE <<>>
            new == IF r <= Len(rows) THEN rows[r] ELSE <<>>
        IN  [c \in 1..Max(Len(old), Len(new)) |->
                IF c <= Len(new) THEN new[c] ELSE old[c]]]

_write_rows(w, name, rows) ==
    [w EXCEPT ![SheetAt(w, name)].cells = WrittenCells(@, rows)]

\* line 237: history_sheet_name or timestamp.strftime("%Y-%m-%d")
HistoryName(a) ==
    IF a.history_sheet_name # "" THEN a.history_sheet_name ELSE a.fetched_on

\* lines 243-246
DropEmptyDefault(w) ==
    IF HasSheet(w, "Sheet") /\ Len(w) > 1
        /\ ~HasValue(w[SheetAt(w, "Sheet")].cells)
    THEN Remove(w, "Sheet")
    ELSE w

\* lines 231-253: the file while the workbook w is worked on in memory;
\* workbook.save is called in line 255 and nowhere else
SavedEarly(f, w) == w
Unsaved(f, w) == f

\* the inputs of SpecBook
LongName == "a sheet name of thirty-two chars"

SheetNames == {"Sheet", "Latest", "H", LongName}

Dates == {"2026-11-04", "2026-11-05"}

RowsGiven == {<<>>, <<<<"">>>>, <<<<"x">>>>, <<<<"y", "">>, <<"z">>>>}

FilesGiven ==
    { <<>>,
      <<Sheet("Sheet", <<>>)>>,
      <<Sheet("Sheet", <<<<"old">>>>)>>,
      <<Sheet("Latest", <<<<"old">>, <<"older">>>>), Sheet("2026-11-03", <<<<"old">>>>)>>,
      <<Sheet("Sheet", <<<<"">>>>), Sheet("Data", <<<<"kept">>>>)>>,
      <<Sheet("Sheet", <<<<ZERO>>>>), Sheet("Data", <<<<"kept">>>>)>> }

InitBook ==
    /\ pc = "idle"
    /\ file \in FilesGiven
    /\ dir \in IF file = <<>> THEN BOOLEAN ELSE {TRUE}
    /\ wb = <<>>
    /\ args = NoArgs
    /\ calls = 0
    /\ index = 0
    /\ parser = NoParser
    /\ stack = <<>>
    /\ doc = <<>>
    /\ closedT = {}
    /\ nestedT = {}
    /\ used = NothingUsed
    /\ ref = NoRef
    /\ net = "ok"
    /\ html = <<>>
    /\ family = "tables"

scan ==
    <<index, parser, stack, doc, closedT, nestedT, used, net, html, family, ref>>

\* update_workbook(rows, output_path, latest_sheet_name=..., ...) is called
Call ==
    /\ pc \in {"idle", "saved", "err_rows", "err_name", "err_history"}
    /\ calls < MaxCalls
    /\ calls' = calls + 1
    /\ \E r \in RowsGiven, l \in SheetNames, i \in BOOLEAN,
          h \in SheetNames \cup {""}, d \in Dates :
            args' = [rows |-> r, latest_sheet_name |-> l, include_history |-> i,
                     history_sheet_name |-> h, fetched_on |-> d]
    /\ pc' = "called"
    /\ wb' = <<>>
    /\ UNCHANGED <<file, dir, scan>>

\* lines 225-231
Load ==
    /\ pc = "called"
    /\ IF args.rows = <<>>
       THEN pc' = "err_rows" /\ UNCHANGED <<dir, wb>>
       ELSE pc' = "loaded" /\ dir' = TRUE /\ wb' = load_workbook(file)
    /\ UNCHANGED <<file, args, calls, scan>>

\* lines 233-234
WriteLatest ==
    /\ pc = "loaded"
    /\ IF TooLong(args.latest_sheet_name)
       THEN pc' = "err_name" /\ UNCHANGED wb
       ELSE /\ pc' = "latest"
            /\ wb' = _write_rows(_reset_sheet(wb, args.latest_sheet_name),
                                 args.latest_sheet_name, args.rows)
    /\ file' = Unsaved(file, wb')
    /\ UNCHANGED <<dir, args, calls, scan>>

\* lines 236-241
WriteHistory ==
    /\ pc = "latest"
    /\ IF ~args.include_history
       THEN pc' = "history" /\ UNCHANGED wb
       ELSE IF TooLong(HistoryName(args))
       THEN pc' = "err_history" /\ UNCHANGED wb
       ELSE /\ pc' = "history"
            /\ wb' = _write_rows(_reset_sheet(wb, HistoryName(args)),
                                 HistoryName(args), args.rows)
    /\ file' = Unsaved(file, wb')
    /\ UNCHANGED <<dir, args, calls, scan>>

\* lines 243-256
Save ==
    /\ pc = "history"
    /\ wb' = DropEmptyDefault(wb)
    /\ file' = wb'
    /\ pc' = "saved"
    /\ UNCHANGED <<dir, args, calls, scan>>

\* lines 225-256 in one: the workbook a call that raises nothing saves
update_workbook(f, a) ==
    LET latest == _write_rows(_reset_sheet(load_workbook(f), a.latest_sheet_name),
                              a.latest_sheet_name, a.rows)
        history == IF a.include_history
                   THEN _write_rows(_reset_sheet(latest, HistoryName(a)),
                                    HistoryName(a), a.rows)
                   ELSE latest
    IN  DropEmptyDefault(history)

NextBook == Call \/ Load \/ WriteLatest \/ WriteHistory \/ Save

SpecBook == InitBook /\ [][NextBook]_vars

(* ================================ claims ================================ *)
Scanning == pc \in {"feed", "ok", "err_notfound"}

\* the markup fed so far is a complete well-formed document
Complete == Scanning /\ stack = <<>>

\* C1 (as stated): for complete well-formed markup and a target index below
\* the number of tables, the scanner's rows are exactly the closed non-empty
\* rows of the table at that index (tables counted in document order), for
\* every arrangement of tables.
C1_ExactRowsEveryArrangement ==
    (Complete /\ index < Len(doc)) => parser.rows = doc[index + 1]

\* C1 (amended): the same, for a target table inside which no table is
\* opened; earlier and later tables, nested or not, contribute no row.
C1_ExactRowsWithoutNested ==
    (Complete /\ index < Len(doc) /\ index \notin nestedT)
        => parser.rows = doc[index + 1]

\* C1 witness: the target is the third table, the first table holds a row and
\* a nested table (the second) with a row of its own, and the target's row is
\* the result.
C1_Witness ==
    /\ Complete
    /\ index = 2
    /\ Len(doc) = 3
    /\ nestedT = {0}
    /\ doc[1] # <<>>
    /\ doc[2] # <<>>
    /\ parser.rows = <<<<<<"c">>>>>>

\* the call of fetch_table_rows has ended after a successful download
Returned == net = "ok" /\ pc \in {"ok", "err_arg", "err_notfound", "err_type"}

\* C2 (as stated): a call whose index is at least the number of table-open
\* boundaries of the downloaded markup ends with the not-found error.
C2_MissingTableIsNotFound ==
    (Returned /\ index >= TableOpens(html)) => pc = "err_notfound"

\* C3 (as stated): a call with a negative index ends with the
\* invalid-argument error, and no parser has been created or fed.
C3_NegativeIndexIsInvalidArgument ==
    (Returned /\ index < 0) => (pc = "err_arg" /\ parser = NoParser)

C6_CaptureEndsAtOwnClose ==
    Scanning =>
        /\ parser.capture <=> index \in OpenTables
        /\ parser.capture =>
            parser.table_depth = Cardinality({k \in OpenTables : k >= index})

\* C6 witness: a table nested in the target has been closed, the target is
\* still being captured, and the row closed after the nested close and the
\* row after that one are both in the result.
C6_Witness ==
    /\ pc = "feed"
    /\ index = 0
    /\ nestedT = {0}
    /\ closedT = {1}
    /\ parser.capture
    /\ parser.table_depth = 1
    /\ used.rows = 2
    /\ doc[2] = <<>>
    /\ Len(parser.rows) = 2

\* C5: every row of the scanner's result holds at least one cell, whatever
\* events have been fed.
C5_NoEmptyRow ==
    Scanning => \A i \in 1..Len(parser.rows) : parser.rows[i] # <<>>

\* C5 witness: seven events opened one table, two rows and one cell and left
\* no row open; one row is in the result, the row without a cell is not.
C5_Witness ==
    /\ pc = "feed"
    /\ used.events = 7
    /\ used.rows = 2
    /\ used.cells = 1
    /\ parser.current_index = 0
    /\ parser.capture
    /\ ~parser.in_row
    /\ Len(parser.rows) = 1

(* ----------------------------- cell text -------------------------------- *)
\* the step feeds the end tag of the open cell of the captured table
ClosesCell ==
    /\ pc = "feed"
    /\ pc' = "feed"
    /\ Top = "cell"
    /\ Len(stack') = Len(stack) - 1
    /\ parser.capture

Last(s) == s[Len(s)]

NonWs(s) == SelectSeq(s, LAMBDA c : c \notin Whitespace)

\* the position in s of its k-th character that is not whitespace
Pos(s, k) ==
    CHOOSE i \in 1..Len(s) :
        /\ s[i] \notin Whitespace
        /\ Cardinality({j \in 1..i : s[j] \notin Whitespace}) = k

\* no line of v starts or ends with whitespace, and v holds no raw
\* non-breaking space or carriage return
LinesTrimmed(v) ==
    /\ \A j \in 1..Len(v) : v[j] \notin {NBSP, CR}
    /\ v # <<>> => (v[1] \notin Whitespace /\ Last(v) \notin Whitespace)
    /\ \A j \in 1..Len(v) :
        (v[j] = SP /\ 1 < j /\ j < Len(v)) => (v[j - 1] # LF /\ v[j + 1] # LF)

\* a line break separates two pieces of text that are not all whitespace
BreakBetweenText(t) ==
    \E i \in 1..Len(t) :
        /\ t[i] = LF
        /\ \E j \in 1..(i - 1) : t[j] \notin Whitespace
        /\ \E k \in (i + 1)..Len(t) : t[k] \notin Whitespace

\* v is t with its lines trimmed and its line boundaries kept: the same
\* text characters in order, and wherever a line boundary lies between two
\* of them in t a line separator lies between them in v
KeepsLines(t, v) ==
    /\ NonWs(v) = NonWs(t)
    /\ LinesTrimmed(v)
    /\ Contains(v, LF)
    /\ \A k \in 1..(Len(NonWs(t)) - 1) :
        (\E i \in Pos(t, k)..Pos(t, k + 1) : t[i] \in LineBoundary)
            => (\E i \in Pos(v, k)..Pos(v, k + 1) : v[i] = LF)

\* C7: when a cell is closed whose text has a line break between two pieces
\* of text, the string appended to the row keeps a line separator between
\* the trimmed lines.
C7_BreakKeepsLines ==
    [][(ClosesCell /\ BreakBetweenText(parser.cell_parts))
        => /\ Len(parser'.current_row) = Len(parser.current_row) + 1
           /\ KeepsLines(parser.cell_parts, Last(parser'.current_row))]_vars

\* C7 witness: a cell fed two letters, one line separator and two other
\* whitespace characters has been closed to the two lines "A" and "B".
C7_Witness ==
    /\ family = "text"
    /\ pc = "feed"
    /\ used.cells = 1
    /\ used.chars = 5
    /\ used.letters = 2
    /\ used.newlines = 1
    /\ ~parser.in_cell
    /\ parser.current_row = <<<<"A", LF, "B">>>>

\* v is t with every whitespace run between text replaced by one space and
\* no whitespace at either end
Collapsed(t, v) ==
    /\ NonWs(v) = NonWs(t)
    /\ \A j \in 1..Len(v) : v[j] \notin {NBSP, LF, CR}
    /\ v # <<>> => (v[1] # SP /\ Last(v) # SP)
    /\ \A j \in 1..(Len(v) - 1) : ~(v[j] = SP /\ v[j + 1] = SP)
    /\ \A k \in 1..(Len(NonWs(t)) - 1) :
        (Pos(t, k + 1) = Pos(t, k) + 1) <=> (Pos(v, k + 1) = Pos(v, k) + 1)

\* C8: when a cell is closed whose text holds no line separator (no
\* character str.splitlines splits on), the string appended to the row is
\* the text with non-breaking spaces as spaces, every whitespace run
\* collapsed to one space and no whitespace at either end.
C8_CollapsesWhitespace ==
    [][(ClosesCell /\ \A i \in 1..Len(parser.cell_parts) :
                        parser.cell_parts[i] \notin LineBoundary)
        => /\ Len(parser'.current_row) = Len(parser.current_row) + 1
           /\ Collapsed(parser.cell_parts, Last(parser'.current_row))]_vars

\* C8 witness: the example of the spec has been fed whole,
\* <table><tr><td>A</td><td>B  C</td></tr><tr></tr></table> has five text
\* characters, three of them letters, and gives the one row ["A", "B C"].
C8_Witness ==
    /\ family = "text"
    /\ Complete
    /\ used.rows = 2
    /\ used.cells = 2
    /\ used.chars = 5
    /\ used.letters = 3
    /\ used.newlines = 0
    /\ parser.rows = << << <<"A">>, <<"B", SP, "C">> >> >>

\* C9: when a cell is closed whose text is all whitespace (spaces,
\* non-breaking spaces, newlines, carriage returns, line breaks), the empty
\* string is appended to the row.
C9_BlankCellIsEmpty ==
    [][(ClosesCell /\ \A i \in 1..Len(parser.cell_parts) :
                        parser.cell_parts[i] \in Whitespace)
        => parser'.current_row = Append(parser.current_row, <<>>)]_vars

\* C9 witness: a cell fed a line separator and two other whitespace
\* characters, and no letter, has been closed and is in its row as the empty string.
C9_Witness ==
    /\ family = "text"
    /\ pc = "feed"
    /\ used.cells = 1
    /\ used.chars = 3
    /\ used.letters = 0
    /\ used.newlines = 1
    /\ ~parser.in_cell
    /\ parser.current_row = <<<<>>>>

(* ------------------------------ workbook -------------------------------- *)
\* C10 (as stated): after every successful update_workbook call the saved
\* workbook has a sheet named latest_sheet_name whose cells are the rows
\* supplied.
C10_LatestHoldsRows ==
    pc = "saved" =>
        \E i \in 1..Len(file) :
            /\ file[i].title = args.latest_sheet_name
            /\ file[i].cells = args.rows

\* the step is the save that ends a successful update_workbook call
Saves == pc = "history" /\ pc' = "saved"

HoldsSheet(w, name, cells) ==
    \E i \in 1..Len(w) : w[i].title = name /\ w[i].cells = cells

\* C11 (as stated): a successful call with include_history saves a workbook
\* with a sheet named history_sheet_name (the fetch date when none is given)
\* whose cells are the rows supplied; a successful call without
\* include_history saves no sheet, other than the latest one, that the file
\* did not hold unchanged before the call.
C11_HistoryKeptOrSkipped ==
    [][Saves =>
        IF args.include_history
        THEN HoldsSheet(file', HistoryName(args), args.rows)
        ELSE \A i \in 1..Len(file') :
                file'[i].title # args.latest_sheet_name
                    => \E j \in 1..Len(file) : file[j] = file'[i]]_vars

\* C11, away from the cleanup of "Sheet": the same for every call whose
\* history name is not "Sheet" or whose rows hold a value.
C11_HistoryUnlessEmptyDefault ==
    [][(Saves /\ (HistoryName(args) # "Sheet" \/ HasValue(args.rows))) =>
        IF args.include_history
        THEN HoldsSheet(file', HistoryName(args), args.rows)
        ELSE \A i \in 1..Len(file') :
                file'[i].title # args.latest_sheet_name
                    => \E j \in 1..Len(file) : file[j] = file'[i]]_vars

(* ------------------------------- fetch ---------------------------------- *)
\* C12: when the download fails (connection failure, HTTP error, timeout),
\* the call of fetch_table_rows ends with the fetch error and line 139 is
\* never reached: no parser is constructed or fed and none of the parser's
\* errors is reported, whatever the table index.
C12_FetchErrorBeforeParser ==
    (net # "ok" /\ pc # "call") => (pc = "err_fetch" /\ parser = NoParser)

\* C12 witness: the connection failed in a call with a negative index, and
\* the call has ended with the fetch error.
C12_Witness ==
    /\ net = "URLError"
    /\ index < 0
    /\ pc = "err_fetch"
    /\ parser = NoParser

(* --------------------------- scanner states ----------------------------- *)
\* C13: in every scanner state a line break in open form (<br>) and one in
\* self-closing form (<br/>) lead to the same next state: a line separator
\* appended to the cell accumulator when capturing with a cell open, no
\* change otherwise.
C13_BreakFormsAgree ==
    pc = "feed" =>
        /\ handle_starttag(parser, "br") = handle_startendtag(parser, "br")
        /\ handle_startendtag(parser, "br") =
            IF parser.capture /\ parser.in_cell
            THEN [parser EXCEPT !.cell_parts = Append(@, LF)]
            ELSE parser

\* C13 witness: two line breaks have been fed into the open cell of the
\* captured table, and a third in either form adds a third line separator.
C13_Witness ==
    /\ pc = "feed"
    /\ used.events = 4
    /\ parser.capture
    /\ parser.in_cell
    /\ parser.cell_parts = <<LF, LF>>
    /\ handle_starttag(parser, "br").cell_parts = <<LF, LF, LF>>
    /\ handle_startendtag(parser, "br").cell_parts = <<LF, LF, LF>>

\* the fields of the scanner other than the depth counter and the seen-count
Body(p) == [p EXCEPT !.table_depth = 0, !.current_index = 0]

\* C14: while capturing, a table-open changes only the depth counter and the
\* seen-count and a table-close of a nested table only the depth counter;
\* and after any events the scanner is, but for these two fields, in the
\* state of a scanner fed the same events without the table-open and
\* table-close boundaries of the nested tables: the result rows are the same.
C14_NestedBoundariesTransparent ==
    Scanning =>
        /\ parser.capture =>
            handle_starttag(parser, "table") =
                [parser EXCEPT !.table_depth = @ + 1, !.current_index = @ + 1]
        /\ (parser.capture /\ parser.table_depth >= 2) =>
            handle_endtag(parser, "table") =
                [parser EXCEPT !.table_depth = @ - 1]
        /\ parser.rows = ref.flat.rows
        /\ Body(parser) = Body(ref.flat)
        /\ parser.capture => parser.table_depth = ref.flat.table_depth + ref.nest

\* C14 witness: eight events, among them a table opened and closed inside
\* the open cell of the captured table and a character fed after it, gave
\* the one row ["x"] in both scanners; the second one saw one table.
C14_Witness ==
    /\ pc = "feed"
    /\ used.events = 8
    /\ parser.capture
    /\ parser.current_index = 1
    /\ ref.flat.current_index = 0
    /\ ref.nest = 0
    /\ parser.rows = << << <<"x">> >> >>
    /\ ref.flat.rows = parser.rows

(* --------------------------- workbook, again ---------------------------- *)
Errors == {"err_rows", "err_name", "err_history"}

\* C15: the file at output_path is written by no step other than the save
\* that ends a successful call, so a call that fails with ValueError (no
\* rows, a latest or history sheet name of more than 31 characters) leaves
\* it as it was; and the step that rejects empty rows is the first of its
\* call and touches neither the file nor its directory.
C15_ErrorLeavesFile ==
    [][/\ file' # file => Saves
       /\ (pc' \in Errors /\ pc \notin Errors) => file' = file
       /\ (pc' = "err_rows" /\ pc # "err_rows")
            => (pc = "called" /\ wb = <<>> /\ dir' = dir)
       /\ pc' = "called" => (file' = file /\ dir' = dir)]_vars

\* C15 witness: the history name was rejected after the latest sheet was
\* written in memory, in a call on a path where no file and no directory
\* existed: the directory has been made, there is still no file.
C15_Witness ==
    /\ pc = "err_history"
    /\ HoldsSheet(wb, args.latest_sheet_name, args.rows)
    /\ calls = 1
    /\ dir
    /\ file = <<>>

(* --------------------------------- main --------------------------------- *)
MainEnded == pc \in {"SystemExit_2", "uncaught", "return_0", "return_3"}

\* C16 (as stated): main ends with status 2 when the download fails with
\* HTTPError or URLError, and returns 3 when the download succeeds and the
\* extraction fails (the index is negative, or the page has no table of
\* that index); it returns 0 only after a successful download.
C16_StatusTellsFailure ==
    MainEnded =>
        /\ net \in HandledByDownloadClause => pc = "SystemExit_2"
        /\ (net = "ok" /\ (index < 0 \/ index >= TableOpens(html)))
            => pc = "return_3"
        /\ pc = "return_0" => net = "ok"

(* ----------------------- scanner states, again -------------------------- *)
\* C17: after any events, the result rows are the rows assembled from the
\* boundaries (each row the cells finalized between its row-open and its
\* row-close, in order; a row without a cell left out), a row is open in the
\* scanner exactly when one is open by the boundaries, and its accumulator
\* holds the cells finalized since its row-open; a row-open while capturing
\* leaves an empty accumulator and adds nothing to the result.
C17_RowsFromOwnBoundaries ==
    Scanning =>
        /\ parser.rows = ref.out
        /\ parser.in_row = ref.open
        /\ parser.in_row => parser.current_row = ref.acc
        /\ parser.capture =>
            /\ handle_starttag(parser, "tr").current_row = <<>>
            /\ handle_starttag(parser, "tr").rows = parser.rows

\* C17 witness: eight events gave the row ["x"], closed by its row-close,
\* and then opened and closed a cell with no row open: that cell is in the
\* scanner's accumulator and in no row, and the next row-open drops it.
C17_Witness ==
    /\ pc = "feed"
    /\ used.events = 8
    /\ used.rows = 1
    /\ used.cells = 2
    /\ used.chars = 1
    /\ parser.capture
    /\ ~parser.in_row
    /\ parser.rows = << << <<"x">> >> >>
    /\ parser.current_row = << <<>> >>
    /\ ref.acc = <<>>
    /\ handle_starttag(parser, "tr").current_row = <<>>

\* C18: after any events the capture flag is on exactly when the depth
\* counter is at least 1, the depth counter is never negative, and a
\* table-close arriving while not capturing changes nothing.
C18_CaptureIffDepth ==
    Scanning =>
        /\ parser.capture <=> parser.table_depth >= 1
        /\ parser.table_depth >= 0
        /\ ~parser.capture => handle_endtag(parser, "table") = parser

\* C18 witness: six events opened the target table and a table inside it and
\* fed table-closes until capture ended; the depth is 0 and one more
\* table-close leaves it there.
C18_Witness ==
    /\ pc = "feed"
    /\ used.events = 6
    /\ ref.starts = 1
    /\ parser.current_index = parser.target_index + 1
    /\ ref.flat.current_index = parser.target_index
    /\ ~parser.capture
    /\ parser.table_depth = 0
    /\ handle_endtag(parser, "table").table_depth = 0

IsTableTag(tag) == Lower(tag) = "table"

\* capture has been on and is off
CaptureEnded == ref.starts >= 1 /\ ~parser.capture

\* C19: after any events, capture has gone from off to on at most once, and
\* it has exactly when the seen-count has reached the target index, which
\* every table-open raises by one; once capture has ended no event sets the
\* capture flag or changes the result rows; and while not capturing every
\* event other than a table-open leaves the scanner as it is.
C19_CaptureStartsOnce ==
    Scanning =>
        /\ ref.starts <= 1
        /\ ref.starts = 1 <=> parser.current_index >= parser.target_index
        /\ handle_starttag(parser, "table").current_index
            = parser.current_index + 1
        /\ CaptureEnded =>
            \A tag \in AnyTags :
                /\ ~handle_starttag(parser, tag).capture
                /\ handle_starttag(parser, tag).rows = parser.rows
        /\ ~parser.capture =>
            /\ \A tag \in AnyTags :
                /\ ~IsTableTag(tag) => handle_starttag(parser, tag) = parser
                /\ handle_endtag(parser, tag) = parser
                /\ handle_startendtag(parser, tag) = parser
            /\ \A c \in AnyChars : handle_data(parser, <<c>>) = parser

\* C19 witness: eight events fed the first table, the target, with a row of
\* one empty cell, closed it, and then opened a second table and a row:
\* capture is off, the seen-count is past the target and the result is still
\* the one row.
C19_Witness ==
    /\ pc = "feed"
    /\ index = 0
    /\ used.events = 8
    /\ used.rows = 2
    /\ used.cells = 1
    /\ CaptureEnded
    /\ parser.current_index = 1
    /\ ref.flat.current_index = 1
    /\ parser.rows = << << <<>> >> >>

Titles(w) == {w[i].title : i \in 1..Len(w)}

\* the names of the sheets the call writes
Written(a) ==
    {a.latest_sheet_name} \cup (IF a.include_history THEN {HistoryName(a)} ELSE {})

NoCellFilled(cells) ==
    \A r \in 1..Len(cells) : \A c \in 1..Len(cells[r]) : cells[r][c] = ""

\* every sheet of the file before that the call does not write is in the
\* file after, unchanged, unless it is a sheet "Sheet" that is Droppable
Frame(before, after, a, Droppable(_)) ==
    \A j \in 1..Len(before) :
        before[j].title \notin Written(a) =>
            \/ \E i \in 1..Len(after) : after[i] = before[j]
            \/ before[j].title = "Sheet" /\ Droppable(before[j].cells)

NoCellTrue(cells) == ~HasValue(cells)

\* the same call made again on the file w, with rows r
Again(w, a, r) == update_workbook(w, [a EXCEPT !.rows = r])

\* C20 (as stated): a successful call leaves every sheet of the file that is
\* named neither latest_sheet_name nor as the history sheet in the saved
\* workbook with its cells unchanged, a sheet "Sheet" with no non-empty cell
\* apart; and the same call made again, with any rows, saves a workbook with
\* the same set of sheet names.
C20_OtherSheetsKept ==
    [][Saves =>
        /\ Frame(file, file', args, NoCellFilled)
        /\ \A r \in RowsGiven \ {<<>>} :
            Titles(Again(file', args, r)) = Titles(file')]_vars

\* C20, as far as the code goes: the sheet "Sheet" is dropped when no cell
\* of it holds a true value, and the set of sheet names is the same after
\* the same call made again with the same rows.
C20_OtherSheetsKeptUnlessFalsy ==
    [][Saves =>
        /\ file' = update_workbook(file, args)
        /\ Frame(file, file', args, NoCellTrue)
        /\ Titles(Again(file', args, args.rows)) = Titles(file')]_vars

====
